---- MODULE Spec2Model ----
(***************************************************************************)
(* bob.math: the Pool-Adjacent-Violators engine (bob::math::pavx and its   *)
(* variants) and the Python binding of the interior-point LP solver.       *)
(*                                                                         *)
(* Arrays are functions over 0..extent-1, as in the zero-based C++ code.   *)
(* A double is modelled as an exact rational: every value is an integer    *)
(* count of 1/Scale units, Scale being a common multiple of every block    *)
(* length, so that every block mean the algorithm forms is an integer of   *)
(* the model (the variable rounded records any division that is not        *)
(* exact). Floating-point rounding is outside the model.                   *)
(***************************************************************************)
EXTENDS Integers, Sequences, FiniteSets, TLC

\* ------------------------------------------------------------------ bounds
MaxLen == 4
MaxVal == 2
MaxDim == 2

RECURSIVE Gcd(_, _)
Gcd(a, b) == IF b = 0 THEN a ELSE Gcd(b, a % b)

RECURSIVE LcmUpTo(_)
LcmUpTo(k) == IF k <= 1 THEN 1 ELSE LET r == LcmUpTo(k - 1) IN (r * k) \div Gcd(r, k)

\* one model unit is 1/Scale; the inputs are whole numbers, i.e. multiples of Scale
Scale == LcmUpTo(MaxLen)
Vals == {(v - 1) * Scale : v \in 0..MaxVal}

\* size_t is narrowed to the integers TLC has; only the wrap of 0 - 1 matters
SizeMax == (2^30 - 1) * 2 + 1

VARIABLES
  pc,       \* position of the PAV call
  fn,       \* entry point called
  y,        \* input array
  ghat,     \* output array
  index,    \* working array: left endpoint of each interval
  len,      \* working array: length of each interval
  ci,       \* index of the interval currently considered
  j,        \* loop variable of pavx_1
  n,        \* loop variable of pavx_2
  width,    \* returned widths (pavxWidth, pavxWidthHeight)
  height,   \* returned heights (pavxWidthHeight)
  oob,      \* an array element outside its extent has been read or written
  err,      \* error reported by the call
  fed,      \* the input of this call is the output of the previous call
  rounded,  \* a division of the model was not exact
  merges,   \* number of times pavx_1 has pooled two intervals in this call
  shared,   \* input and output are one and the same array
  held,     \* the values the input array held when the call began
  py,       \* what the Python wrapper of the entry point hands to its caller
  lp,       \* the LP solver object and its last solve call
  invoked   \* the last call of a constructor or of a function of the module

pavVars == <<pc, fn, y, ghat, index, len, ci, j, n, width, height, oob, err, fed, rounded,
             merges, shared, held, py>>
vars == <<pc, fn, y, ghat, index, len, ci, j, n, width, height, oob, err, fed, rounded,
          merges, shared, held, py, lp, invoked>>

\* ------------------------------------------------------------------ arrays
Extent(a) == Cardinality(DOMAIN a)
Arr(k, v) == [i \in 0..(k - 1) |-> v]
InRange(i, a) == i \in DOMAIN a
ArraysOfLen(k) == [0..(k - 1) -> Vals]
Inputs == UNION {ArraysOfLen(k) : k \in 0..MaxLen}

\* a[from] + ... + a[to]
RECURSIVE SumRange(_, _, _)
SumRange(a, from, to) == IF from > to THEN 0 ELSE a[to] + SumRange(a, from, to - 1)

Checked == {"pavx", "pavxWidth", "pavxWidthHeight"}
EntryPoints == Checked \cup {"pavx_"}

\* prior content of a caller-supplied output array
Junk == 7 * Scale
PriorContents == {Junk, 0 - Junk}

Max(a, b) == IF a >= b THEN a ELSE b

\* ------------------------------------------------------------------ entry
\* bob::math::pavx, pavxWidth, pavxWidthHeight: assertSameShape throws, the
\* C assert aborts unless the build defines NDEBUG; pavx_ checks nothing.
Enter(f, in, out, ndebug) ==
  /\ fn' = f
  /\ y' = in
  /\ ghat' = out
  /\ index' = Arr(Extent(in), 0)
  /\ len' = Arr(Extent(in), 0)
  /\ ci' = 0
  /\ j' = 0
  /\ n' = 0
  /\ width' = <<>>
  /\ height' = <<>>
  /\ oob' = FALSE
  /\ rounded' = FALSE
  /\ merges' = 0
  /\ held' = in
  /\ IF f \in Checked /\ Extent(in) # Extent(out)
       THEN pc' = "error" /\ err' = "shape"
       ELSE IF f \in Checked /\ Extent(in) = 0 /\ ~ndebug
         THEN pc' = "aborted" /\ err' = "none"
         ELSE pc' = "pavx_1" /\ err' = "none"

\* what a Python caller holds before the wrapper returns; returns_output: the
\* wrapper allocated the output itself, in the shape of the input
NotReturned(ro) == [returns_output |-> ro, result |-> "pending", error |-> "none"]

\* the caller passes an output array of its own, whatever it held before
Call ==
  /\ pc = "idle"
  /\ \E f \in EntryPoints, in \in Inputs, gn \in 0..MaxLen, prior \in PriorContents,
        ndebug \in BOOLEAN :
       /\ Enter(f, in, Arr(gn, prior), ndebug)
       /\ fed' = FALSE
       /\ shared' = FALSE
       /\ py' = NotReturned(FALSE)
  /\ UNCHANGED <<lp, invoked>>

\* the caller passes the input array as the output array too
CallShared ==
  /\ pc = "idle"
  /\ \E f \in EntryPoints, in \in Inputs, ndebug \in BOOLEAN :
       /\ Enter(f, in, in, ndebug)
       /\ fed' = FALSE
       /\ shared' = TRUE
       /\ py' = NotReturned(FALSE)
  /\ UNCHANGED <<lp, invoked>>

\* py_pavx without output: PyBlitzArray_SimpleNew(NPY_FLOAT64, ndim, shape)
CallAllocating ==
  /\ pc = "idle"
  /\ \E in \in Inputs, ndebug \in BOOLEAN :
       /\ Enter("pavx", in, Arr(Extent(in), Junk), ndebug)
       /\ fed' = FALSE
       /\ shared' = FALSE
       /\ py' = NotReturned(TRUE)
  /\ UNCHANGED <<lp, invoked>>

\* a write to ghat is a write to y when the two are the same array
Aliasing == y' = IF shared THEN ghat' ELSE y

\* the fit: the part of ghat that pavx_2 defines
Output == [i \in DOMAIN y |-> ghat[i]]

\* the previous output is passed again as the input, to the same entry point
CallAgain ==
  /\ pc = "done"
  /\ ~fed
  /\ Enter(fn, Output, Arr(Extent(y), Junk), TRUE)
  /\ fed' = TRUE
  /\ shared' = FALSE
  /\ py' = NotReturned(FALSE)
  /\ UNCHANGED <<lp, invoked>>

\* ------------------------------------------------------------------ pavx_1
\* ghat = 0.
ZeroedNot(a) == a
Zeroed(a) == Arr(Extent(a), 0)

\* y as pavx_1 reads it once ghat = 0. has run
AfterZeroing == IF shared THEN Zeroed(ghat) ELSE y

\* lines 24-34: clear the arrays and open interval 0
Pavx1Begin ==
  /\ pc = "pavx_1"
  /\ IF InRange(0, index) /\ InRange(0, len) /\ InRange(0, ghat) /\ InRange(0, y)
       THEN /\ index' = [Arr(Extent(index), 0) EXCEPT ![0] = 0]
            /\ len' = [Arr(Extent(len), 0) EXCEPT ![0] = 1]
            /\ ghat' = [Zeroed(ghat) EXCEPT ![0] = AfterZeroing[0]]
            /\ ci' = 0
            /\ j' = 1
            /\ pc' = "for"
            /\ UNCHANGED oob
       ELSE /\ oob' = TRUE
            /\ pc' = "ub"
            /\ UNCHANGED <<index, len, ghat, ci, j>>
  /\ Aliasing
  /\ UNCHANGED <<fn, n, width, height, err, fed, rounded, merges, shared, held, py, lp, invoked>>

\* what the caller receives once pavx_1 has returned ci
AfterPavx1 == IF fn \in {"pavxWidth", "pavxWidthHeight"} THEN "width" ELSE "pavx_2"

\* lines 35-41: loop head; a new interval holding y(j) is opened
Pavx1For ==
  /\ pc = "for"
  /\ IF j < Extent(y)
       THEN IF InRange(ci + 1, index) /\ InRange(ci + 1, len) /\ InRange(ci + 1, ghat)
              THEN /\ ci' = ci + 1
                   /\ index' = [index EXCEPT ![ci + 1] = j]
                   /\ len' = [len EXCEPT ![ci + 1] = 1]
                   /\ ghat' = [ghat EXCEPT ![ci + 1] = y[j]]
                   /\ pc' = "while"
                   /\ UNCHANGED <<oob, n>>
              ELSE /\ oob' = TRUE
                   /\ pc' = "ub"
                   /\ UNCHANGED <<ci, index, len, ghat, n>>
       ELSE /\ pc' = AfterPavx1
            /\ n' = Extent(index)
            /\ UNCHANGED <<ci, index, len, ghat, oob>>
  /\ Aliasing
  /\ UNCHANGED <<fn, j, width, height, err, fed, rounded, merges, shared, held, py, lp, invoked>>

\* --ci on a size_t
DecrStays(c) == c
Decr(c) == IF c = 0 THEN SizeMax ELSE c - 1

\* line 42: the two adjacent intervals violate monotonicity
ViolatorsStrict(g, c) == c >= 1 /\ g[Max(c - 1, 0)] > g[c]
ViolatorsSkipFirst(g, c) == c >= 2 /\ g[Max(c - 1, 0)] >= g[c]
Violators(g, c) == c >= 1 /\ g[Max(c - 1, 0)] >= g[c]

\* line 46: the pooled mean, ghat(ci-1) + (len(ci) / nw) * (ghat(ci) - ghat(ci-1))
PoolDropsWeight(gl, gr, ll, lr) == gl + (gr - gl) \div 2
Pool(gl, gr, ll, lr) == gl + (lr * (gr - gl)) \div (ll + lr)

\* lines 42-49: pool adjacent violators, or go to the next j
Pavx1While ==
  /\ pc = "while"
  /\ IF Violators(ghat, ci)
       THEN /\ ghat' = [ghat EXCEPT ![ci - 1] = Pool(ghat[ci - 1], ghat[ci], len[ci - 1], len[ci])]
            /\ len' = [len EXCEPT ![ci - 1] = len[ci - 1] + len[ci]]
            /\ ci' = Decr(ci)
            /\ rounded' = (rounded \/ (len[ci] * (ghat[ci] - ghat[ci - 1])) % (len[ci - 1] + len[ci]) # 0)
            /\ merges' = merges + 1
            /\ UNCHANGED <<j, pc>>
       ELSE /\ j' = j + 1
            /\ pc' = "for"
            /\ UNCHANGED <<ghat, len, ci, rounded, merges>>
  /\ Aliasing
  /\ UNCHANGED <<fn, index, n, width, height, oob, err, fed, shared, held, py, lp, invoked>>

\* ------------------------------------------------------------------ widths
\* len(Range(0,ci)) and ghat(Range(0,ci)) copied into arrays of ci+1 elements
WidthWhole(l, c) == l
WidthOf(l, c) == [k \in 0..c |-> l[k]]
HeightWhole(g, c) == g
HeightOf(g, c) == [k \in 0..c |-> g[k]]

\* pavxWidth lines 97-99, pavxWidthHeight lines 122-126
GetWidth ==
  /\ pc = "width"
  /\ width' = WidthOf(len, ci)
  /\ height' = IF fn = "pavxWidthHeight" THEN HeightOf(ghat, ci) ELSE height
  /\ pc' = "pavx_2"
  /\ UNCHANGED <<fn, y, ghat, index, len, ci, j, n, oob, err, fed, rounded,
                 merges, shared, held, py, lp, invoked>>

\* ------------------------------------------------------------------ pavx_2
\* while (n >= 1)
MoreToDefineFromZero(k) == k >= 0
MoreToDefine(k) == k >= 1

\* ghat(Range(from, to)) = v
FillFromZero(g, from, to, v) == [i \in DOMAIN g |-> IF i <= to THEN v ELSE g[i]]
Fill(g, from, to, v) == [i \in DOMAIN g |-> IF from <= i /\ i <= to THEN v ELSE g[i]]

\* lines 58-64: one interval is written back, right to left
Pavx2 ==
  /\ pc = "pavx_2"
  /\ IF MoreToDefine(n)
       THEN IF InRange(ci, index) /\ InRange(ci, ghat) /\ InRange(index[ci], ghat) /\ InRange(n - 1, ghat)
              THEN /\ ghat' = Fill(ghat, index[ci], n - 1, ghat[ci])
                   /\ n' = index[ci]
                   /\ ci' = Decr(ci)
                   /\ UNCHANGED <<pc, oob>>
              ELSE /\ oob' = TRUE
                   /\ pc' = "ub"
                   /\ UNCHANGED <<ghat, n, ci>>
       ELSE /\ pc' = "done"
            /\ UNCHANGED <<ghat, n, ci, oob>>
  /\ Aliasing
  /\ UNCHANGED <<fn, index, len, j, width, height, err, fed, rounded,
                 merges, shared, held, py, lp, invoked>>

\* ------------------------------------------------------------------ Python wrappers
\* py_pavx: the catch clauses set the error and fall through to the return
\* statements; returns_output decides between the output array and None
PyPavx(threw, ro) == IF ro THEN "output" ELSE "None"

\* py_pavx_nocheck, py_pavx_width, py_pavx_width_height: return 0 in the catch
\* clauses, otherwise None, the widths, or the pair of widths and heights
PyOthers(f, threw) ==
  IF threw THEN "NULL"
  ELSE IF f = "pavx_" THEN "None"
  ELSE IF f = "pavxWidth" THEN "width"
  ELSE "width, height"

\* the part of each wrapper that follows the call of the core routine
PyReturn ==
  /\ pc \in {"done", "error"}
  /\ py.result = "pending"
  /\ py' = [py EXCEPT !.result = IF fn = "pavx" THEN PyPavx(pc = "error", py.returns_output)
                                                 ELSE PyOthers(fn, pc = "error"),
                       !.error = IF pc = "error" THEN "RuntimeError" ELSE "none"]
  /\ pc' = "returned"
  /\ UNCHANGED <<fn, y, ghat, index, len, ci, j, n, width, height, oob, err, fed, rounded,
                 merges, shared, held, lp, invoked>>

\* ------------------------------------------------------------------ LP solver object
\* an array argument as PyBlitzArray_Converter hands it over: its numeric kind
\* and rank are right ("ok") or not; an optional argument may be absent (0)
ArgKinds == {"ok", "not_float64", "wrong_rank"}
OptKinds == ArgKinds \cup {"absent"}

NoCall == [parsed |-> FALSE, A |-> "ok", b |-> "ok", c |-> "ok", x0 |-> "ok",
           lambda |-> "absent", mu |-> "absent", shapes |-> FALSE]

\* the arguments of the other methods: the kind of each array argument and,
\* when every kind is right, the values; M, N and value are the arguments of
\* reset and of the attribute setters, other and op those of a comparison
ArgNames == {"A", "b", "c", "x", "lambda", "mu"}
AllOk == [a \in ArgNames |-> "ok"]
NoInput == [kinds |-> AllOk, A |-> <<>>, b |-> <<>>, c |-> <<>>, x |-> <<>>,
            lambda |-> <<>>, mu |-> <<>>, theta |-> 0, M |-> 0, N |-> 0,
            value |-> 0, other |-> <<>>, op |-> "none"]

\* PyBobMathLpInteriorPointObject and the bob::math::LPInteriorPoint it owns
\* (M, N, epsilon, the parameters of the strategy, lambda, mu), with the call
\* in progress: method, arguments (args and x0 for solve, in for the others),
\* whether the core routine was invoked (ran), the error set, the value
\* returned (retval for solve, out for the others) and the attributes the
\* object had when the call began (before)
NoSolver == [pc |-> "none", strategy |-> "shortstep", M |-> 0, N |-> 0,
             epsilon |-> 0, params |-> <<>>, lambda |-> <<>>, mu |-> <<>>,
             args |-> NoCall, x0 |-> <<>>, ran |-> FALSE, refined |-> <<>>,
             err |-> "none", retval |-> <<>>,
             method |-> "none", in |-> NoInput, out |-> "none", before |-> <<>>]

\* a call of a constructor, of a histogram measure or of normsinv: the
\* arguments (npos positional and nkw keyword arguments, wellformed when each
\* has an expected name and converts; p for normsinv; the object to copy and
\* the dimensions for a constructor), the branch taken, the error set and
\* the value returned
NoArguments == [npos |-> 0, nkw |-> 0, wellformed |-> TRUE, p |-> 0,
                other |-> "none", M |-> 0, N |-> 0]
NotInvoked == [fn |-> "none", in |-> NoArguments, path |-> "none",
               error |-> "none", result |-> "none"]

\* ------------------------------------------------------------------ spec
\* the call is over and its arrays go out of scope
Return ==
  /\ pc \in {"done", "error", "aborted", "ub", "returned"}
  /\ pc' = "idle"
  /\ fn' = "pavx"
  /\ y' = <<>>
  /\ ghat' = <<>>
  /\ index' = <<>>
  /\ len' = <<>>
  /\ ci' = 0
  /\ j' = 0
  /\ n' = 0
  /\ width' = <<>>
  /\ height' = <<>>
  /\ oob' = FALSE
  /\ err' = "none"
  /\ fed' = FALSE
  /\ rounded' = FALSE
  /\ merges' = 0
  /\ shared' = FALSE
  /\ held' = <<>>
  /\ py' = NotReturned(FALSE)
  /\ UNCHANGED <<lp, invoked>>

Init ==
  /\ pc = "idle"
  /\ fn = "pavx"
  /\ y = <<>>
  /\ ghat = <<>>
  /\ index = <<>>
  /\ len = <<>>
  /\ ci = 0
  /\ j = 0
  /\ n = 0
  /\ width = <<>>
  /\ height = <<>>
  /\ oob = FALSE
  /\ err = "none"
  /\ fed = FALSE
  /\ rounded = FALSE
  /\ merges = 0
  /\ shared = FALSE
  /\ held = <<>>
  /\ py = NotReturned(FALSE)
  /\ lp = NoSolver
  /\ invoked = NotInvoked

Next ==
  \/ Call
  \/ CallShared
  \/ CallAllocating
  \/ CallAgain
  \/ Pavx1Begin
  \/ Pavx1For
  \/ Pavx1While
  \/ GetWidth
  \/ Pavx2
  \/ PyReturn
  \/ Return

Spec == Init /\ [][Next]_vars

\* ------------------------------------------------------------------ LP solver
\* LPInteriorPointShortstep, LPInteriorPointPredictorCorrector and
\* LPInteriorPointLongstep: their tp_base is LPInteriorPoint, whose method
\* table holds the one solve all three use.
Strategies == {"shortstep", "predictor_corrector", "longstep"}

\* theta | theta_pred, theta_corr | gamma, sigma: the parameters of a strategy
\* and the theta or gamma of a call are counted in units of 1/ThetaDen
ThetaDen == 2
ParamVals == 1..2
ParamCount(st) == IF st = "shortstep" THEN 1 ELSE 2
ParamInputs(st) == [1..ParamCount(st) -> ParamVals]
ThetaInputs == 1..2

\* epsilon as a caller may give it, and the M and N a caller may give
Tolerances == 0..2
DimInputs == -1..MaxDim

\* what the getters m, n, epsilon, theta..., lambda and mu read
Observable(self) == <<self.M, self.N, self.epsilon, self.params, self.lambda, self.mu>>

\* bob::math::LPInteriorPoint refuses a dimension that is not positive
DimensionsValid(m, k) == m > 0 /\ k > 0

\* the object a constructor leaves: the duals have the declared sizes and are zero
Constructed(st, m, k, p, e) ==
  [NoSolver EXCEPT !.pc = "ready", !.strategy = st, !.M = m, !.N = k,
                   !.epsilon = e, !.params = p, !.lambda = Arr(m, 0), !.mu = Arr(k, 0)]

\* the constructors of the three subclasses, detailed form (M, N, parameters),
\* called with valid dimensions, epsilon = 1 and every parameter 1/ThetaDen
LpConstruct ==
  /\ lp.pc = "none"
  /\ \E st \in Strategies, m \in 1..MaxDim, k \in 1..MaxDim :
       lp' = Constructed(st, m, k, [i \in 1..ParamCount(st) |-> 1], 1)
  /\ UNCHANGED <<pavVars, invoked>>

\* the same constructors, called with any dimensions, parameters and epsilon
LpInit ==
  /\ lp.pc = "none"
  /\ \E st \in Strategies, m \in DimInputs, k \in DimInputs, e \in Tolerances :
       \E p \in ParamInputs(st) :
         lp' = IF DimensionsValid(m, k)
                 THEN Constructed(st, m, k, p, e)
                 ELSE [NoSolver EXCEPT !.strategy = st, !.ran = TRUE,
                                       !.err = "RuntimeError:construct",
                                       !.in = [NoInput EXCEPT !.M = m, !.N = k, !.value = e]]
  /\ UNCHANGED <<pavVars, invoked>>

\* type_num != NPY_FLOAT64 || ndim != rank
MalformedKindOnly(kind) == kind = "not_float64"
Malformed(kind) == kind # "ok"
Supplied(kind) == kind # "absent"

\* (lambda && !mu) || (mu && !lambda)
OnlyLambdaWithoutMu(lambda, mu) == Supplied(lambda) /\ ~Supplied(mu)
OnlyOneOf(lambda, mu) ==
  (Supplied(lambda) /\ ~Supplied(mu)) \/ (Supplied(mu) /\ ~Supplied(lambda))

\* part_020 lines 305-338: the checks made before the output is allocated, in
\* the order of the code; "none" when the call goes on
SolveChecks(a) ==
  IF ~a.parsed THEN "TypeError:parse"
  ELSE IF Malformed(a.A) THEN "TypeError:A"
  ELSE IF Malformed(a.b) THEN "TypeError:b"
  ELSE IF Malformed(a.c) THEN "TypeError:c"
  ELSE IF Malformed(a.x0) THEN "TypeError:x0"
  ELSE IF Supplied(a.lambda) /\ Malformed(a.lambda) THEN "TypeError:lambda"
  ELSE IF Supplied(a.mu) /\ Malformed(a.mu) THEN "TypeError:mu"
  ELSE IF OnlyOneOf(a.lambda, a.mu) THEN "RuntimeError:usage"
  ELSE "none"

\* bob::math::LPInteriorPoint::solve accepts the problem: A is M x N, b and
\* lambda have M entries, c, x and mu have 2N entries
CoreAccepts(self, a, x) == a.shapes /\ Extent(x) = 2 * self.N

\* the outcomes of bob::math::LPInteriorPoint::solve on the copy of x0: it
\* throws, or it refines the vector in place
Throws == <<"throws">>
PrimalVals == 0..1
CoreOutcomes(self, a, x) ==
  {Throws} \cup (IF CoreAccepts(self, a, x) THEN [DOMAIN x -> PrimalVals] ELSE {})

\* the duals a run of the core leaves in the object: it threw and they are as
\* they were, or they are populated, every entry the same positive value
DualVals == 1..2
KeptDuals(self) == [thrown |-> TRUE, lambda |-> self.lambda, mu |-> self.mu]
DualOutcomes(self) ==
  {[thrown |-> FALSE, lambda |-> Arr(self.M, v), mu |-> Arr(self.N, v)] : v \in DualVals}
WithDuals(self, d) == [self EXCEPT !.lambda = d.lambda, !.mu = d.mu]

\* shape[0] /= 2, and the elements the halved array shows
ReturnedShapeWhole(k) == k
ReturnedShape(k) == k \div 2
ReturnedTail(x, k) == [i \in 0..(k - 1) |-> x[i + Extent(x) - k]]
ReturnedData(x, k) == [i \in 0..(k - 1) |-> x[i]]

\* part_020 lines 340-381: the output is a copy of x0, the solver refines it,
\* and the first half is returned
SolveRun(self, a, x, outcome) ==
  IF outcome = Throws
    THEN [self EXCEPT !.pc = "returned", !.args = a, !.x0 = x, !.ran = TRUE,
                      !.refined = <<>>, !.err = "RuntimeError:solve", !.retval = <<>>,
                      !.method = "solve", !.before = Observable(self)]
    ELSE [self EXCEPT !.pc = "returned", !.args = a, !.x0 = x, !.ran = TRUE,
                      !.refined = outcome, !.err = "none",
                      !.retval = ReturnedData(outcome, ReturnedShape(Extent(outcome))),
                      !.method = "solve", !.before = Observable(self)]

SolveRejected(self, a, x, e) ==
  [self EXCEPT !.pc = "returned", !.args = a, !.x0 = x, !.ran = FALSE,
               !.refined = <<>>, !.err = e, !.retval = <<>>,
               !.method = "solve", !.before = Observable(self)]

CallArgs ==
  [parsed : {TRUE}, A : ArgKinds, b : ArgKinds, c : ArgKinds, x0 : ArgKinds,
   lambda : OptKinds, mu : OptKinds, shapes : BOOLEAN]

\* PyBobMathLpInteriorPoint_solve; the core leaves its duals in the object
LpSolve ==
  /\ lp.pc = "ready"
  /\ \/ lp' = SolveRejected(lp, NoCall, <<>>, SolveChecks(NoCall))
     \/ \E a \in CallArgs, xn \in 0..(2 * MaxDim + 1) :
          LET x == Arr(xn, 1) IN
          IF SolveChecks(a) # "none"
            THEN lp' = SolveRejected(lp, a, x, SolveChecks(a))
            ELSE \E outcome \in CoreOutcomes(lp, a, x) :
                   \E d \in (IF outcome = Throws THEN {KeptDuals(lp)} ELSE DualOutcomes(lp)) :
                     lp' = WithDuals(SolveRun(lp, a, x, outcome), d)
  /\ UNCHANGED <<pavVars, invoked>>

\* the caller has the result; the solver is ready for the next call
LpReturn ==
  /\ lp.pc = "returned"
  /\ lp' = [lp EXCEPT !.pc = "ready", !.args = NoCall, !.x0 = <<>>, !.ran = FALSE,
                      !.refined = <<>>, !.err = "none", !.retval = <<>>,
                      !.method = "none", !.in = NoInput, !.out = "none", !.before = <<>>]
  /\ UNCHANGED <<pavVars, invoked>>

\* ------------------------------------------------------------------ LP: the other methods
\* a call of a method other than solve ends: the object is as the core left
\* it (after), the error is set or the value is returned
Outcome(self, after, meth, inp, e, o, core) ==
  [after EXCEPT !.pc = "returned", !.method = meth, !.in = inp, !.err = e,
                !.out = o, !.ran = core, !.before = Observable(self)]

PyBool(v) == IF v THEN "True" ELSE "False"

\* bob::math::LPInteriorPoint::reset: the dimensions are set and every buffer,
\* lambda and mu included, is reallocated to them and zeroed
CoreReset(self, m, k) ==
  [self EXCEPT !.M = m, !.N = k, !.lambda = Arr(m, 0), !.mu = Arr(k, 0)]

\* PyBobMathLpInteriorPoint_reset
ResetCallSwapped(self, parsed, m, k) ==
  LET inp == [NoInput EXCEPT !.M = m, !.N = k] IN
  IF ~parsed THEN Outcome(self, self, "reset", NoInput, "TypeError:parse", "none", FALSE)
  ELSE IF DimensionsValid(m, k)
    THEN Outcome(self, CoreReset(self, k, m), "reset", inp, "none", "None", TRUE)
    ELSE Outcome(self, self, "reset", inp, "RuntimeError:reset", "none", TRUE)
ResetCall(self, parsed, m, k) ==
  LET inp == [NoInput EXCEPT !.M = m, !.N = k] IN
  IF ~parsed THEN Outcome(self, self, "reset", NoInput, "TypeError:parse", "none", FALSE)
  ELSE IF DimensionsValid(m, k)
    THEN Outcome(self, CoreReset(self, m, k), "reset", inp, "none", "None", TRUE)
    ELSE Outcome(self, self, "reset", inp, "RuntimeError:reset", "none", TRUE)

LpReset ==
  /\ lp.pc = "ready"
  /\ \/ lp' = ResetCall(lp, FALSE, 0, 0)
     \/ \E m \in DimInputs, k \in DimInputs : lp' = ResetCall(lp, TRUE, m, k)
  /\ UNCHANGED <<pavVars, invoked>>

\* PyBobMathLpInteriorPoint_setM, _setN: setDimM and setDimN resize as reset does
SetMCall(self, parsed, v) ==
  LET inp == [NoInput EXCEPT !.value = v] IN
  IF ~parsed THEN Outcome(self, self, "set_m", NoInput, "Error:convert", "none", FALSE)
  ELSE IF DimensionsValid(v, self.N)
    THEN Outcome(self, CoreReset(self, v, self.N), "set_m", inp, "none", "None", TRUE)
    ELSE Outcome(self, self, "set_m", inp, "RuntimeError:m", "none", TRUE)

SetNCall(self, parsed, v) ==
  LET inp == [NoInput EXCEPT !.value = v] IN
  IF ~parsed THEN Outcome(self, self, "set_n", NoInput, "Error:convert", "none", FALSE)
  ELSE IF DimensionsValid(self.M, v)
    THEN Outcome(self, CoreReset(self, self.M, v), "set_n", inp, "none", "None", TRUE)
    ELSE Outcome(self, self, "set_n", inp, "RuntimeError:n", "none", TRUE)

\* PyBobMathLpInteriorPoint_setEpsilon: the value goes to setEpsilon as it is
SetEpsilonCall(self, parsed, v) ==
  LET inp == [NoInput EXCEPT !.value = v] IN
  IF ~parsed THEN Outcome(self, self, "set_epsilon", NoInput, "Error:convert", "none", FALSE)
  ELSE Outcome(self, [self EXCEPT !.epsilon = v], "set_epsilon", inp, "none", "None", TRUE)

LpSetM ==
  /\ lp.pc = "ready"
  /\ \/ lp' = SetMCall(lp, FALSE, 0)
     \/ \E v \in DimInputs : lp' = SetMCall(lp, TRUE, v)
  /\ UNCHANGED <<pavVars, invoked>>

LpSetN ==
  /\ lp.pc = "ready"
  /\ \/ lp' = SetNCall(lp, FALSE, 0)
     \/ \E v \in DimInputs : lp' = SetNCall(lp, TRUE, v)
  /\ UNCHANGED <<pavVars, invoked>>

LpSetEpsilon ==
  /\ lp.pc = "ready"
  /\ \/ lp' = SetEpsilonCall(lp, FALSE, 0)
     \/ \E v \in Tolerances : lp' = SetEpsilonCall(lp, TRUE, v)
  /\ UNCHANGED <<pavVars, invoked>>

\* PyBobMathLpInteriorPoint_lambda, _mu: an array of getDimM() (getDimN())
\* entries is allocated and getLambda() (getMu()) is assigned to it
Mismatch == <<"extents differ">>
PyLambda(self) == IF Extent(self.lambda) = self.M THEN self.lambda ELSE Mismatch
PyMu(self) == IF Extent(self.mu) = self.N THEN self.mu ELSE Mismatch

\* ---- the values the predicates are called with
\* k entries p followed by k entries q
Halves(k, p, q) == [i \in 0..(2 * k - 1) |-> IF i < k THEN p ELSE q]
Eye(m, k) == [i \in 0..(m - 1) |-> [col \in 0..(k - 1) |-> IF i = col THEN 1 ELSE 0]]
Ones(m, k) == [i \in 0..(m - 1) |-> Arr(k, 1)]

XVals == {-1, 1, 2, 3}
AInputs(self) == {Eye(self.M, self.N), Ones(self.M, self.N)}
CInputs(self) == {Halves(self.N, 0, 1), Halves(self.N, 1, 1), Arr(self.N, 1)}
XInputs(self) == {Halves(self.N, p, q) : p \in XVals, q \in 0..1}
LambdaInputs(self) == {Arr(self.M, v) : v \in 0..1}
MuInputs(self) == {Halves(self.N, p, q) : p \in -1..1, q \in 0..1}

\* calls in which one or two of the named array arguments are malformed
KindInputs(names) ==
  {[NoInput EXCEPT !.kinds = kk] :
     kk \in {q \in [ArgNames -> ArgKinds] :
               /\ \A a \in ArgNames \ names : q[a] = "ok"
               /\ Cardinality({a \in names : q[a] # "ok"}) \in 1..2}}

\* well-typed calls: b has M entries, every one 1; c may have N entries only
ProblemInputs(self) ==
  {[NoInput EXCEPT !.A = aa, !.b = Arr(self.M, 1), !.c = cc, !.x = xx,
                   !.lambda = ll, !.mu = mm] :
     aa \in AInputs(self), cc \in CInputs(self), xx \in XInputs(self),
     ll \in LambdaInputs(self), mm \in MuInputs(self)}

\* well-typed calls in which A has a column too many, or b an entry too many
MisshapedInputs(self) ==
  {[NoInput EXCEPT !.A = Eye(self.M, self.N + 1), !.b = Arr(self.M, 1),
                   !.c = Halves(self.N, 1, 1), !.x = Halves(self.N, 1, 0),
                   !.lambda = Arr(self.M, 0), !.mu = Halves(self.N, 1, 1)],
   [NoInput EXCEPT !.A = Eye(self.M, self.N), !.b = Arr(self.M + 1, 1),
                   !.c = Halves(self.N, 1, 1), !.x = Halves(self.N, 1, 0),
                   !.lambda = Arr(self.M, 0), !.mu = Halves(self.N, 1, 1)]}

FeasibleInputs(self) ==
  KindInputs(ArgNames) \cup ProblemInputs(self) \cup MisshapedInputs(self)

InVSInputs(self) ==
  KindInputs(ArgNames) \cup
  {[q EXCEPT !.theta = t] :
     q \in ProblemInputs(self) \cup MisshapedInputs(self), t \in ThetaInputs}

InVInputs(self) ==
  KindInputs({"x", "mu"}) \cup
  {[NoInput EXCEPT !.x = xx, !.mu = mm, !.theta = t] :
     xx \in XInputs(self), mm \in MuInputs(self) \cup {Arr(self.N, 1)}, t \in ThetaInputs}

InitializeInputs(self) ==
  KindInputs({"A", "c"}) \cup
  {[NoInput EXCEPT !.A = aa, !.c = cc] :
     aa \in AInputs(self) \cup {Eye(self.M, self.N + 1)}, cc \in CInputs(self)}

\* ---- bob::math::LPInteriorPoint, the predicates
\* A is M x N, b and lambda have M entries, c, x and mu have 2N entries
ProblemShaped(self, A, c) ==
  /\ Extent(A) = self.M
  /\ \A i \in DOMAIN A : Extent(A[i]) = self.N
  /\ Extent(c) = 2 * self.N
ShapesAgree(self, inp) ==
  /\ ProblemShaped(self, inp.A, inp.c)
  /\ Extent(inp.b) = self.M
  /\ Extent(inp.lambda) = self.M
  /\ Extent(inp.x) = 2 * self.N
  /\ Extent(inp.mu) = 2 * self.N
VectorsAgree(self, inp) ==
  /\ Extent(inp.x) = 2 * self.N
  /\ Extent(inp.mu) = 2 * self.N

\* the doubled-width problem: x holds the positive parts, then the negative
\* parts, of a point of width N, so A acts on x as (A, -A)
RowTimes(row, x) ==
  LET k == Extent(row) IN SumRange([col \in 0..(k - 1) |-> row[col] * (x[col] - x[col + k])], 0, k - 1)
ColumnTimes(A, col, l) ==
  SumRange([i \in DOMAIN A |-> A[i][col] * l[i]], 0, Extent(A) - 1)

\* A x - b
PrimalResidualFirstHalf(A, b, x) ==
  [i \in DOMAIN b |-> SumRange([col \in DOMAIN A[i] |-> A[i][col] * x[col]], 0, Extent(A[i]) - 1) - b[i]]
PrimalResidual(A, b, x) == [i \in DOMAIN b |-> RowTimes(A[i], x) - b[i]]

\* A^T lambda + mu - c
DualResidual(A, c, l, m) ==
  LET k == Extent(c) \div 2 IN
  [col \in DOMAIN c |->
     (IF col < k THEN ColumnTimes(A, col, l) ELSE 0 - ColumnTimes(A, col - k, l)) + m[col] - c[col]]

NormSq(v) == SumRange([i \in DOMAIN v |-> v[i] * v[i]], 0, Extent(v) - 1)
\* norm < eps, norm being the root of normsq
Below(normsq, eps) == eps > 0 /\ normsq < eps * eps
NonNegative(v) == \A i \in DOMAIN v : v[i] >= 0

isFeasibleIgnoringMuSign(self, inp) ==
  /\ Below(NormSq(PrimalResidual(inp.A, inp.b, inp.x)), self.epsilon)
  /\ NonNegative(inp.x)
  /\ Below(NormSq(DualResidual(inp.A, inp.c, inp.lambda, inp.mu)), self.epsilon)
isFeasible(self, inp) ==
  /\ Below(NormSq(PrimalResidual(inp.A, inp.b, inp.x)), self.epsilon)
  /\ NonNegative(inp.x)
  /\ Below(NormSq(DualResidual(inp.A, inp.c, inp.lambda, inp.mu)), self.epsilon)
  /\ NonNegative(inp.mu)

\* x^T mu, and len(x) * (x o mu - tau * 1): tau = x^T mu / len(x)
Complementarity(x, m) == SumRange([i \in DOMAIN x |-> x[i] * m[i]], 0, Extent(x) - 1)
Deviation(x, m) == [i \in DOMAIN x |-> Extent(x) * x[i] * m[i] - Complementarity(x, m)]

\* || x o mu - tau * 1 || <= theta * tau, both sides times len(x) * ThetaDen
isInV2NoCentre(x, m, t) ==
  /\ t * Complementarity(x, m) >= 0
  /\ ThetaDen * ThetaDen * Extent(x) * Extent(x) * NormSq([i \in DOMAIN x |-> x[i] * m[i]])
       <= t * t * Complementarity(x, m) * Complementarity(x, m)
isInV2(x, m, t) ==
  /\ t * Complementarity(x, m) >= 0
  /\ ThetaDen * ThetaDen * NormSq(Deviation(x, m))
       <= t * t * Complementarity(x, m) * Complementarity(x, m)

\* x o mu >= gamma * tau in every component, both sides times len(x) * ThetaDen
isInVInf(x, m, g) ==
  \A i \in DOMAIN x : ThetaDen * Extent(x) * x[i] * m[i] >= g * Complementarity(x, m)

\* isInV is virtual: LPInteriorPointLongstep overrides it
isInV(self, x, m, t) ==
  IF self.strategy = "longstep" THEN isInVInf(x, m, t) ELSE isInV2(x, m, t)

isInVS(self, inp) == isFeasible(self, inp) /\ isInV(self, inp.x, inp.mu, inp.theta)

\* ---- the binding of the predicates
\* the type_num and ndim checks of the named arguments, in the order of the code
ArrayChecks(names, kinds) ==
  IF "A" \in names /\ Malformed(kinds.A) THEN "TypeError:A"
  ELSE IF "b" \in names /\ Malformed(kinds.b) THEN "TypeError:b"
  ELSE IF "c" \in names /\ Malformed(kinds.c) THEN "TypeError:c"
  ELSE IF "x" \in names /\ Malformed(kinds.x) THEN "TypeError:x"
  ELSE IF "lambda" \in names /\ Malformed(kinds.lambda) THEN "TypeError:lambda"
  ELSE IF "mu" \in names /\ Malformed(kinds.mu) THEN "TypeError:mu"
  ELSE "none"

\* PyBobMathLpInteriorPoint_is_feasible: isFeasible is a const member, the
\* object is as it was
IsFeasibleCallStoresMu(self, inp) ==
  IF ArrayChecks(ArgNames, inp.kinds) # "none"
    THEN Outcome(self, self, "is_feasible", inp, ArrayChecks(ArgNames, inp.kinds), "none", FALSE)
  ELSE IF ~ShapesAgree(self, inp)
    THEN Outcome(self, self, "is_feasible", inp, "RuntimeError:is_feasible", "none", TRUE)
  ELSE Outcome(self, [self EXCEPT !.mu = inp.mu], "is_feasible", inp, "none",
               PyBool(isFeasible(self, inp)), TRUE)
IsFeasibleCall(self, inp) ==
  IF ArrayChecks(ArgNames, inp.kinds) # "none"
    THEN Outcome(self, self, "is_feasible", inp, ArrayChecks(ArgNames, inp.kinds), "none", FALSE)
  ELSE IF ~ShapesAgree(self, inp)
    THEN Outcome(self, self, "is_feasible", inp, "RuntimeError:is_feasible", "none", TRUE)
  ELSE Outcome(self, self, "is_feasible", inp, "none",
               PyBool(isFeasible(self, inp)), TRUE)

\* tp_methods of the type of the object: LPInteriorPointLongstep binds the
\* name is_in_v to PyBobMathLpInteriorPoint_is_in_vinf
MethodTable(st, name) == IF st = "longstep" /\ name = "is_in_v" THEN "is_in_vinf" ELSE name

\* PyBobMathLpInteriorPoint_is_in_v and PyBobMathLpInteriorPoint_is_in_vinf:
\* both call isInV through the pointer to the base class
IsInVCallBase(self, inp) ==
  LET meth == MethodTable(self.strategy, "is_in_v") IN
  IF ArrayChecks({"x", "mu"}, inp.kinds) # "none"
    THEN Outcome(self, self, meth, inp, ArrayChecks({"x", "mu"}, inp.kinds), "none", FALSE)
  ELSE IF ~VectorsAgree(self, inp)
    THEN Outcome(self, self, meth, inp, "RuntimeError:is_in_v", "none", TRUE)
  ELSE Outcome(self, self, meth, inp, "none", PyBool(isInV2(inp.x, inp.mu, inp.theta)), TRUE)
IsInVCall(self, inp) ==
  LET meth == MethodTable(self.strategy, "is_in_v") IN
  IF ArrayChecks({"x", "mu"}, inp.kinds) # "none"
    THEN Outcome(self, self, meth, inp, ArrayChecks({"x", "mu"}, inp.kinds), "none", FALSE)
  ELSE IF ~VectorsAgree(self, inp)
    THEN Outcome(self, self, meth, inp, "RuntimeError:is_in_v", "none", TRUE)
  ELSE Outcome(self, self, meth, inp, "none",
               PyBool(isInV(self, inp.x, inp.mu, inp.theta)), TRUE)

\* PyBobMathLpInteriorPoint_is_in_v_s
IsInVSCallFeasibleOnly(self, inp) ==
  IF ArrayChecks(ArgNames, inp.kinds) # "none"
    THEN Outcome(self, self, "is_in_v_s", inp, ArrayChecks(ArgNames, inp.kinds), "none", FALSE)
  ELSE IF ~ShapesAgree(self, inp)
    THEN Outcome(self, self, "is_in_v_s", inp, "RuntimeError:is_in_v_s", "none", TRUE)
  ELSE Outcome(self, self, "is_in_v_s", inp, "none", PyBool(isFeasible(self, inp)), TRUE)
IsInVSCall(self, inp) ==
  IF ArrayChecks(ArgNames, inp.kinds) # "none"
    THEN Outcome(self, self, "is_in_v_s", inp, ArrayChecks(ArgNames, inp.kinds), "none", FALSE)
  ELSE IF ~ShapesAgree(self, inp)
    THEN Outcome(self, self, "is_in_v_s", inp, "RuntimeError:is_in_v_s", "none", TRUE)
  ELSE Outcome(self, self, "is_in_v_s", inp, "none",
               PyBool(isInVS(self, inp)), TRUE)

\* PyBobMathLpInteriorPoint_initialize_dual_lambda_mu: the core throws, or it
\* leaves the duals it computed in the object
InitializeCall(self, inp, d) ==
  IF ArrayChecks({"A", "c"}, inp.kinds) # "none"
    THEN Outcome(self, self, "initialize_dual_lambda_mu", inp,
                 ArrayChecks({"A", "c"}, inp.kinds), "none", FALSE)
  ELSE IF ~ProblemShaped(self, inp.A, inp.c) \/ d.thrown
    THEN Outcome(self, self, "initialize_dual_lambda_mu", inp,
                 "RuntimeError:initialize_dual_lambda_mu", "none", TRUE)
  ELSE Outcome(self, WithDuals(self, d), "initialize_dual_lambda_mu", inp, "none", "None", TRUE)

LpIsFeasible ==
  /\ lp.pc = "ready"
  /\ \E inp \in FeasibleInputs(lp) : lp' = IsFeasibleCall(lp, inp)
  /\ UNCHANGED <<pavVars, invoked>>

LpIsInV ==
  /\ lp.pc = "ready"
  /\ \E inp \in InVInputs(lp) : lp' = IsInVCall(lp, inp)
  /\ UNCHANGED <<pavVars, invoked>>

LpIsInVS ==
  /\ lp.pc = "ready"
  /\ \E inp \in InVSInputs(lp) : lp' = IsInVSCall(lp, inp)
  /\ UNCHANGED <<pavVars, invoked>>

LpInitializeDual ==
  /\ lp.pc = "ready"
  /\ \E inp \in InitializeInputs(lp), d \in DualOutcomes(lp) \cup {KeptDuals(lp)} :
       lp' = InitializeCall(lp, inp, d)
  /\ UNCHANGED <<pavVars, invoked>>

\* ---- comparison
\* the object the solver is compared with: the solver itself, or another
\* object of any of the three types, as its constructor left it
Identity(self) == 1
AsOther(self) ==
  [id |-> Identity(self), strategy |-> self.strategy, M |-> self.M, N |-> self.N,
   epsilon |-> self.epsilon, params |-> self.params]
Others(self) ==
  {AsOther(self)} \cup
  UNION {[id : {Identity(self) + 1}, strategy : {st}, M : 1..MaxDim, N : 1..MaxDim,
          epsilon : Tolerances, params : ParamInputs(st)] : st \in Strategies}
CompareOps == {"==", "!=", "<"}

\* bob::math::LPInteriorPoint::operator== of the strategy: M, N, epsilon and
\* the parameters of the strategy
CoreEquals(a, b) ==
  a.M = b.M /\ a.N = b.N /\ a.epsilon = b.epsilon /\ a.params = b.params

\* PyBobMathLpInteriorPointShortstep_RichCompare and those of the two other types
RichCompareByIdentity(self, other, op) ==
  LET inp == [NoInput EXCEPT !.other = other, !.op = op] IN
  IF other.strategy # self.strategy
    THEN Outcome(self, self, "compare", inp, "TypeError:compare", "none", FALSE)
  ELSE IF op = "=="
    THEN Outcome(self, self, "compare", inp, "none", PyBool(other.id = Identity(self)), TRUE)
  ELSE IF op = "!="
    THEN Outcome(self, self, "compare", inp, "none", PyBool(other.id # Identity(self)), TRUE)
  ELSE Outcome(self, self, "compare", inp, "none", "NotImplemented", FALSE)
RichCompare(self, other, op) ==
  LET inp == [NoInput EXCEPT !.other = other, !.op = op] IN
  IF other.strategy # self.strategy
    THEN Outcome(self, self, "compare", inp, "TypeError:compare", "none", FALSE)
  ELSE IF op = "=="
    THEN Outcome(self, self, "compare", inp, "none", PyBool(CoreEquals(AsOther(self), other)), TRUE)
  ELSE IF op = "!="
    THEN Outcome(self, self, "compare", inp, "none", PyBool(~CoreEquals(AsOther(self), other)), TRUE)
  ELSE Outcome(self, self, "compare", inp, "none", "NotImplemented", FALSE)

LpCompare ==
  /\ lp.pc = "ready"
  /\ \E other \in Others(lp), op \in CompareOps : lp' = RichCompare(lp, other, op)
  /\ UNCHANGED <<pavVars, invoked>>

\* ---- the two specifications of the solver
\* the methods that take arrays, on a solver constructed with valid arguments
NextLP ==
  \/ LpConstruct
  \/ LpSolve
  \/ LpInitializeDual
  \/ LpReset
  \/ LpIsFeasible
  \/ LpIsInV
  \/ LpIsInVS
  \/ LpReturn

SpecLP == Init /\ [][NextLP]_vars

\* the attributes, the comparison and the predicates, on a solver constructed
\* with any arguments
NextSolver ==
  \/ LpInit
  \/ LpSetM
  \/ LpSetN
  \/ LpSetEpsilon
  \/ LpReset
  \/ LpCompare
  \/ LpIsFeasible
  \/ LpIsInV
  \/ LpIsInVS
  \/ LpReturn

SpecSolver == Init /\ [][NextSolver]_vars

\* ------------------------------------------------------------------ constructors and functions
\* PyArg_ParseTupleAndKeywords for a format of k required items
Parses(k, npos, nkw, wellformed) == npos + nkw = k /\ wellformed

\* (args ? PyTuple_Size(args) : 0) + (kwds ? PyDict_Size(kwds) : 0)
NargsParenthesised(hasArgs, npos, hasKw, nkw) ==
  (IF hasArgs THEN npos ELSE 0) + (IF hasKw THEN nkw ELSE 0)
\* args ? PyTuple_Size(args) : 0 + kwargs ? PyDict_Size(kwargs) : 0, which
\* C++ groups as args ? PyTuple_Size(args) : ((0 + kwargs) ? PyDict_Size(kwargs) : 0)
NargsUnparenthesised(hasArgs, npos, hasKw, nkw) ==
  IF hasArgs THEN npos ELSE IF hasKw THEN nkw ELSE 0

MaxArgs == 5
ArgCounts == 0..MaxArgs
ArgumentLists ==
  [npos : ArgCounts, nkw : ArgCounts, wellformed : BOOLEAN, p : {0},
   other : {"none"}, M : {0}, N : {0}]

Ended(f, inp, path, e, r) == [fn |-> f, in |-> inp, path |-> path, error |-> e, result |-> r]

\* py_histogram_intersection, py_chi_square, py_kullback_leibler: args is a
\* tuple in every call, kwargs is null when no keyword is given
Measures == {"histogram_intersection", "chi_square", "kullback_leibler"}
MeasureDispatch(f, inp) ==
  LET nargs == NargsUnparenthesised(TRUE, inp.npos, inp.nkw > 0, inp.nkw) IN
  IF nargs = 2
    THEN IF Parses(2, inp.npos, inp.nkw, inp.wellformed)
           THEN Ended(f, inp, "_1", "none", "float")
           ELSE Ended(f, inp, "_1", "TypeError", "NULL")
  ELSE IF nargs = 4
    THEN IF Parses(4, inp.npos, inp.nkw, inp.wellformed)
           THEN Ended(f, inp, "_2", "none", "float")
           ELSE Ended(f, inp, "_2", "TypeError", "NULL")
  ELSE Ended(f, inp, "default", "RuntimeError:nargs", "NULL")

MeasureCall ==
  /\ invoked.fn = "none"
  /\ \E f \in Measures, inp \in ArgumentLists : invoked' = MeasureDispatch(f, inp)
  /\ UNCHANGED <<pavVars, lp>>

\* PyBobMathLpInteriorPoint_init
TypeName(st) ==
  IF st = "shortstep" THEN "LPInteriorPointShortstep"
  ELSE IF st = "predictor_corrector" THEN "LPInteriorPointPredictorCorrector"
  ELSE "LPInteriorPointLongstep"
StrategyTypes == {TypeName(st) : st \in Strategies}
BaseInitConstructs(inp) ==
  [call |-> Ended("LPInteriorPoint", inp, "init", "none", "object"),
   solver |-> Constructed("shortstep", 1, 1, <<1>>, 1)]
BaseInit(inp) ==
  [call |-> Ended("LPInteriorPoint", inp, "init", "NotImplementedError", "none"),
   solver |-> NoSolver]

InitBase ==
  /\ invoked.fn = "none"
  /\ \E inp \in ArgumentLists :
       /\ invoked' = BaseInit(inp).call
       /\ lp' = BaseInit(inp).solver
  /\ UNCHANGED pavVars

\* the copy constructor of the core: a solver with the dimensions, epsilon
\* and parameters of the one it copies
CoreCopy(st, m, k) == Constructed(st, m, k, [i \in 1..ParamCount(st) |-> 1], 1)

\* M, N, the parameters of the strategy and epsilon
FullCount(st) == 3 + ParamCount(st)

\* PyBobMathLpInteriorPointShortstep_init and those of the two other types,
\* with _init1 (copy) and _init4 or _init5 (detailed)
StrategyInit(st, inp) ==
  LET nargs == NargsParenthesised(TRUE, inp.npos, inp.nkw > 0, inp.nkw) IN
  IF nargs = 1
    THEN IF ~Parses(1, inp.npos, inp.nkw, inp.wellformed)
           THEN [call |-> Ended(TypeName(st), inp, "init1", "TypeError:parse", "none"), solver |-> NoSolver]
         ELSE IF inp.other # st
           THEN [call |-> Ended(TypeName(st), inp, "init1", "TypeError:copy", "none"), solver |-> NoSolver]
         ELSE [call |-> Ended(TypeName(st), inp, "init1", "none", "object"),
               solver |-> CoreCopy(st, inp.M, inp.N)]
  ELSE IF nargs = FullCount(st)
    THEN IF ~Parses(FullCount(st), inp.npos, inp.nkw, inp.wellformed)
           THEN [call |-> Ended(TypeName(st), inp, "detailed", "TypeError:parse", "none"), solver |-> NoSolver]
         ELSE IF ~DimensionsValid(inp.M, inp.N)
           THEN [call |-> Ended(TypeName(st), inp, "detailed", "RuntimeError:construct", "none"), solver |-> NoSolver]
         ELSE [call |-> Ended(TypeName(st), inp, "detailed", "none", "object"),
               solver |-> Constructed(st, inp.M, inp.N, [i \in 1..ParamCount(st) |-> 1], 1)]
  ELSE [call |-> Ended(TypeName(st), inp, "default", "RuntimeError:nargs", "none"), solver |-> NoSolver]

\* the object a copy constructor is given: a solver of one of the three
\* types, with valid dimensions, or an object that is no solver
CopySources == Strategies \cup {"object"}

\* a constructor is called with one argument, the object to copy
InitCopy ==
  /\ invoked.fn = "none"
  /\ \E st \in Strategies, a \in ArgumentLists, o \in CopySources, m \in 1..MaxDim, k \in 1..MaxDim :
       /\ a.npos + a.nkw = 1
       /\ LET inp == [a EXCEPT !.other = o, !.M = m, !.N = k] IN
            /\ invoked' = StrategyInit(st, inp).call
            /\ lp' = StrategyInit(st, inp).solver
  /\ UNCHANGED pavVars

\* a constructor is called with any other number of arguments
InitDetailed ==
  /\ invoked.fn = "none"
  /\ \E st \in Strategies, a \in ArgumentLists, m \in DimInputs, k \in DimInputs :
       /\ a.npos + a.nkw # 1
       /\ LET inp == [a EXCEPT !.M = m, !.N = k] IN
            /\ invoked' = StrategyInit(st, inp).call
            /\ lp' = StrategyInit(st, inp).solver
  /\ UNCHANGED pavVars

\* bob::math::normsinv: p is counted in units of 1/PDen, p_low = 0.02425
PDen == 4000
PLow == 97
PHigh == PDen - PLow
PInputs ==
  {0 - 1, 0, 1, PLow - 1, PLow, PLow + 1, PDen \div 2,
   PHigh - 1, PHigh, PHigh + 1, PDen - 1, PDen, PDen + 1}

\* the chain of if and else if: the branch that defines x before the
\* refinement step, "default" when none does and x is still 0
Region(p) ==
  IF p < 0 \/ p > PDen THEN "throws"
  ELSE IF 0 < p /\ p < PLow THEN "lower"
  ELSE IF PLow <= p /\ p <= PHigh THEN "central"
  ELSE IF PHigh < p /\ p < PDen THEN "upper"
  ELSE "default"

\* py_normsinv
NormsInv ==
  /\ invoked.fn = "none"
  /\ \E p \in PInputs :
       LET inp == [NoArguments EXCEPT !.npos = 1, !.p = p] IN
       invoked' = IF Region(p) = "throws"
                    THEN Ended("normsinv", inp, Region(p), "RuntimeError", "NULL")
                    ELSE Ended("normsinv", inp, Region(p), "none", "float")
  /\ UNCHANGED <<pavVars, lp>>

\* the caller has the result; an object constructed goes out of scope
Forget ==
  /\ invoked.fn # "none"
  /\ invoked' = NotInvoked
  /\ lp' = NoSolver
  /\ UNCHANGED pavVars

NextCalls ==
  \/ MeasureCall
  \/ InitBase
  \/ InitCopy
  \/ InitDetailed
  \/ NormsInv
  \/ Forget

SpecCalls == Init /\ [][NextCalls]_vars

\* ------------------------------------------------------------------ claims
NonDecreasing(a) == \A i \in DOMAIN a : (i + 1) \in DOMAIN a => a[i] <= a[i + 1]
Pooled == \E i \in DOMAIN y : (i + 1) \in DOMAIN y /\ y[i] > y[i + 1]

\* the model never rounds: every pooled mean is an exact rational of the model
ExactArithmetic == ~rounded

\* C1: for every input y of length n >= 1 the output ghat of pavx(y) is
\* non-decreasing, ghat[i] <= ghat[i+1] for all 0 <= i < n-1.
C1_Monotone == (pc = "done" /\ Extent(y) >= 1) => NonDecreasing(Output)
C1_Witness == pc = "done" /\ ~fed /\ Extent(y) >= 3 /\ Pooled

\* The candidates of the brute-force isotonic fit of yy, in units of 1/Scale of
\* the model's unit: (a) for every way of cutting 0..n-1 into contiguous blocks,
\* the sequence that is the mean of yy on each block, when it is non-decreasing
\* (the least-squares isotonic fit is one of these), and (b) every non-decreasing
\* sequence of whole numbers of the input range.
BlockStart(C, i) == IF \E c \in C : c <= i THEN CHOOSE c \in C : c <= i /\ \A d \in C : d <= i => d <= c ELSE 0
BlockEnd(C, i, k) == IF \E c \in C : c > i THEN (CHOOSE c \in C : c > i /\ \A d \in C : d > i => c <= d) - 1 ELSE k - 1
BlockMeans(yy, C) ==
  [i \in DOMAIN yy |->
     LET lo == BlockStart(C, i)
         hi == BlockEnd(C, i, Extent(yy))
     IN SumRange(yy, lo, hi) * (Scale \div (hi - lo + 1))]
Fine(a) == [i \in DOMAIN a |-> a[i] * Scale]
Candidates(yy) ==
  {c \in {BlockMeans(yy, C) : C \in SUBSET (1..(Extent(yy) - 1))} \cup
         {Fine(w) : w \in ArraysOfLen(Extent(yy))} : NonDecreasing(c)}
RECURSIVE SqResiduals(_, _, _)
SqResiduals(yy, g, k) ==
  IF k < 0 THEN 0 ELSE (yy[k] * Scale - g[k]) * (yy[k] * Scale - g[k]) + SqResiduals(yy, g, k - 1)
Cost(yy, g) == SqResiduals(yy, g, Extent(yy) - 1)

\* C2: for every input y of length n >= 1 the output ghat of pavx(y) minimises
\* the sum of (y[i] - ghat[i])^2 among the non-decreasing sequences of length n:
\* it is non-decreasing and no candidate of the brute-force fit has a strictly
\* smaller sum of squared residuals.
C2_Optimal ==
  (pc = "done" /\ Extent(y) >= 1) =>
     /\ NonDecreasing(Output)
     /\ \A c \in Candidates(y) : Cost(y, Fine(Output)) <= Cost(y, c)
C2_Witness ==
  /\ pc = "done" /\ ~fed /\ Pooled
  /\ \E i \in DOMAIN y : (i + 1) \in DOMAIN y /\ ghat[i] < ghat[i + 1]
  /\ Cost(y, Fine(Output)) > 0

\* C3: pavx(pavx(y)) = pavx(y) for every y of length >= 1, and an input that is
\* already non-decreasing (every input of length 1 is) is returned unchanged.
C3_Idempotent ==
  (pc = "done" /\ Extent(y) >= 1) =>
     /\ fed => Output = y
     /\ NonDecreasing(y) => Output = y
C3_Witness ==
  /\ pc = "done" /\ fed /\ Extent(y) >= 3
  /\ \E i \in DOMAIN y : y[i] % Scale # 0
  /\ \E i \in DOMAIN y : (i + 1) \in DOMAIN y /\ y[i] < y[i + 1]

\* C4: for every input of length n >= 1 the widths returned by pavxWidth and
\* pavxWidthHeight are each >= 1 and sum to exactly n, so the number k of
\* returned blocks satisfies 1 <= k <= n.
C4_Widths ==
  (pc = "done" /\ fn \in {"pavxWidth", "pavxWidthHeight"} /\ Extent(y) >= 1) =>
     /\ \A k \in DOMAIN width : width[k] >= 1
     /\ SumRange(width, 0, Extent(width) - 1) = Extent(y)
     /\ 1 <= Extent(width) /\ Extent(width) <= Extent(y)
C4_Witness ==
  /\ pc = "done" /\ fn = "pavxWidth"
  /\ 2 <= Extent(width) /\ Extent(width) < Extent(y)

\* height[k] repeated width[k] times, for k = 0, 1, ... from left to right
RECURSIVE Expand(_, _, _)
Expand(w, h, k) ==
  IF k < 0 THEN <<>> ELSE Expand(w, h, k - 1) \o [i \in 1..w[k] |-> h[k]]

\* C5: for pavxWidthHeight, height has the same length as width, and height[k]
\* repeated width[k] times for k = 0, 1, ... yields exactly the ghat sequence
\* produced by the same call.
C5_Expansion ==
  (pc = "done" /\ fn = "pavxWidthHeight" /\ Extent(y) >= 1) =>
     /\ DOMAIN height = DOMAIN width
     /\ Expand(width, height, Extent(width) - 1) = [i \in 1..Extent(ghat) |-> ghat[i - 1]]
C5_Witness ==
  /\ pc = "done" /\ fn = "pavxWidthHeight"
  /\ Extent(height) >= 2
  /\ \E k \in DOMAIN width : width[k] >= 2

\* C6: the bin heights returned by pavxWidthHeight are in increasing order from
\* left to right, height[k] < height[k+1] for every pair of adjacent bins.
C6_HeightsIncrease ==
  (pc = "done" /\ fn = "pavxWidthHeight" /\ Extent(y) >= 1) =>
     \A k \in DOMAIN height : (k + 1) \in DOMAIN height => height[k] < height[k + 1]
C6_Witness ==
  /\ pc = "done" /\ fn = "pavxWidthHeight" /\ ~fed
  /\ Extent(height) >= 2
  /\ \E i \in DOMAIN y : (i + 1) \in DOMAIN y /\ y[i] = y[i + 1]

\* C7: a checked PAV call (pavx, pavxWidth, pavxWidthHeight) on an empty input
\* is rejected before the algorithm reads or writes any array element.
C7_EmptyRejected ==
  (fn \in Checked /\ Extent(y) = 0 /\ pc # "idle") => (pc \in {"error", "aborted"} /\ ~oob)

\* ------------------------------------------------------------------ claims (LP)
Returned == lp.pc = "returned" /\ lp.args.parsed
Succeeded == Returned /\ lp.err = "none"
ExactlyOneSupplied ==
  (lp.args.lambda = "absent" /\ lp.args.mu # "absent") \/
  (lp.args.lambda # "absent" /\ lp.args.mu = "absent")
WellTyped ==
  /\ \A k \in {lp.args.A, lp.args.b, lp.args.c, lp.args.x0} : k = "ok"
  /\ \A k \in {lp.args.lambda, lp.args.mu} : k \in {"ok", "absent"}
TypeErrors ==
  {"TypeError:A", "TypeError:b", "TypeError:c", "TypeError:x0", "TypeError:lambda", "TypeError:mu"}

\* C8 as stated: for every strategy subclass, solve with exactly one of lambda
\* and mu supplied raises the invalid-usage error and the solver is not run.
C8_PairedAsStated ==
  (Returned /\ ExactlyOneSupplied) => (lp.err = "RuntimeError:usage" /\ ~lp.ran)

\* C8 (amended): for every strategy subclass, solve with exactly one of lambda
\* and mu supplied never runs the solver and always raises an error: the
\* invalid-usage error when every supplied array is 64-bit float of the right
\* rank, and otherwise the type error of the first malformed array.
C8_Paired ==
  (Returned /\ ExactlyOneSupplied) =>
     /\ ~lp.ran
     /\ lp.retval = <<>>
     /\ IF WellTyped THEN lp.err = "RuntimeError:usage" ELSE lp.err \in TypeErrors
C8_Witness ==
  /\ Returned /\ WellTyped
  /\ lp.strategy = "longstep"
  /\ lp.args.lambda = "absent" /\ lp.args.mu = "ok"
  /\ lp.args.shapes /\ Extent(lp.x0) = 2 * lp.N
  /\ lp.err = "RuntimeError:usage"

\* C9: a successful solve called with x0 of length 2N returns a vector of
\* length N whose entries are the first N entries of the refined
\* doubled-width solution.
C9_FirstHalf ==
  (Succeeded /\ Extent(lp.x0) = 2 * lp.N) =>
     /\ Extent(lp.retval) = lp.N
     /\ \A i \in 0..(lp.N - 1) : lp.retval[i] = lp.refined[i]
C9_Witness ==
  /\ Succeeded /\ lp.N = 2 /\ Extent(lp.x0) = 4
  /\ lp.refined[0] # lp.refined[2] /\ lp.refined[1] # lp.refined[3]
  /\ lp.refined # lp.x0

\* C10 as stated: a successful solve returns a refined primal vector of the
\* same length as the x0 it was given.
C10_SameLengthAsStated == Succeeded => Extent(lp.retval) = Extent(lp.x0)

\* C10 (amended): a successful solve refines a vector of the same length as
\* the x0 it was given and returns only its first half, a vector of
\* len(x0) / 2 entries (integer division).
C10_HalfLength ==
  Succeeded =>
     /\ Extent(lp.refined) = Extent(lp.x0)
     /\ 2 * Extent(lp.retval) <= Extent(lp.x0)
     /\ Extent(lp.x0) <= 2 * Extent(lp.retval) + 1
C10_Witness ==
  /\ Succeeded /\ lp.strategy = "predictor_corrector"
  /\ Extent(lp.x0) = 2 /\ Extent(lp.retval) = 1
  /\ lp.args.lambda = "ok" /\ lp.args.mu = "ok"

\* ------------------------------------------------------------------ claims (LP, every method)
ArrayMethods ==
  {"solve", "is_feasible", "is_in_v", "is_in_vinf", "is_in_v_s", "initialize_dual_lambda_mu"}
ArraysOf(meth) ==
  IF meth \in {"is_in_v", "is_in_vinf"} THEN {"x", "mu"}
  ELSE IF meth = "initialize_dual_lambda_mu" THEN {"A", "c"}
  ELSE ArgNames
\* a call of one of the methods that take arrays has ended and its arguments were parsed
ArrayCall ==
  /\ lp.pc = "returned"
  /\ lp.method \in ArrayMethods
  /\ lp.method = "solve" => lp.args.parsed
\* some supplied array is not 64-bit float or has the wrong rank
IllTyped ==
  IF lp.method = "solve" THEN ~WellTyped
  ELSE \E a \in ArraysOf(lp.method) : lp.in.kinds[a] # "ok"
Has(v, k) == Cardinality(DOMAIN v) = k
IsMatrix(A, m, k) == Has(A, m) /\ \A i \in DOMAIN A : Has(A[i], k)
\* the arrays are well typed and their dimensions do not fit the problem
\* shape: A is M x N, b and lambda have M entries, c, x and mu have 2N
IllShaped ==
  /\ ~IllTyped
  /\ IF lp.method = "solve" THEN ~(lp.args.shapes /\ Has(lp.x0, 2 * lp.N))
     ELSE IF lp.method \in {"is_in_v", "is_in_vinf"}
       THEN ~(Has(lp.in.x, 2 * lp.N) /\ Has(lp.in.mu, 2 * lp.N))
     ELSE IF lp.method = "initialize_dual_lambda_mu"
       THEN ~(IsMatrix(lp.in.A, lp.M, lp.N) /\ Has(lp.in.c, 2 * lp.N))
     ELSE ~(/\ IsMatrix(lp.in.A, lp.M, lp.N)
            /\ Has(lp.in.b, lp.M) /\ Has(lp.in.lambda, lp.M)
            /\ Has(lp.in.c, 2 * lp.N) /\ Has(lp.in.x, 2 * lp.N) /\ Has(lp.in.mu, 2 * lp.N))
ArrayErrors == TypeErrors \cup {"TypeError:x"}
CoreErrors ==
  {"RuntimeError:solve", "RuntimeError:is_feasible", "RuntimeError:is_in_v",
   "RuntimeError:is_in_v_s", "RuntimeError:initialize_dual_lambda_mu"}
NothingReturned == lp.out = "none" /\ lp.retval = <<>>

Compared == lp.pc = "returned" /\ lp.method = "compare"
SameType == lp.in.other.strategy = lp.strategy
SameValues ==
  /\ lp.in.other.M = lp.M /\ lp.in.other.N = lp.N
  /\ lp.in.other.epsilon = lp.epsilon
  /\ lp.in.other.params = lp.params

\* C12: two distinct solver instances of the same strategy with identical
\* (M, N, epsilon, strategy parameters) compare equal (== is true, != is
\* false); if they differ in any one of these they compare unequal; the
\* result never depends on the two being the same object.
C12_ValueEquality ==
  (Compared /\ SameType /\ lp.in.op \in {"==", "!="}) =>
     /\ lp.err = "none"
     /\ lp.in.op = "==" => lp.out = (IF SameValues THEN "True" ELSE "False")
     /\ lp.in.op = "!=" => lp.out = (IF SameValues THEN "False" ELSE "True")
C12_Witness ==
  /\ Compared /\ SameType /\ SameValues
  /\ lp.strategy = "predictor_corrector"
  /\ lp.in.other.id # Identity(lp)
  /\ lp.in.op = "==" /\ lp.out = "True"

ResetDone == lp.pc = "returned" /\ lp.method = "reset" /\ lp.err = "none"

\* C13: after reset(M', N') succeeds, reading lambda yields a zero-filled
\* vector of M' entries and reading mu a zero-filled vector of N' entries,
\* whatever solve, initialize_dual_lambda_mu and reset calls came before.
C13_ResetZeroes ==
  ResetDone =>
     /\ PyLambda(lp) = Arr(lp.in.M, 0)
     /\ PyMu(lp) = Arr(lp.in.N, 0)
C13_Witness ==
  /\ ResetDone
  /\ lp.in.M > lp.before[1] /\ lp.in.N < lp.before[2]
  /\ \E i \in DOMAIN lp.before[5] : lp.before[5][i] # 0
  /\ \E i \in DOMAIN lp.before[6] : lp.before[6][i] # 0

\* C14: at every point of a solver's life, after any sequence of
\* construction, reset and assignments to m, n and epsilon, M > 0, N > 0 and
\* epsilon > 0; a construction or reset with M <= 0 or N <= 0 fails with an
\* error.
C14_PositiveAlways ==
  /\ lp.pc # "none" => (lp.M > 0 /\ lp.N > 0 /\ lp.epsilon > 0)
  /\ (lp.pc = "returned" /\ lp.method = "reset" /\ lp.in # NoInput
        /\ (lp.in.M <= 0 \/ lp.in.N <= 0)) => lp.err # "none"

\* ------------------------------------------------------------------ claims (LP, the predicates)
\* a zero-based array written out
Vec(q) == [i \in 0..(Len(q) - 1) |-> q[i + 1]]
Count(v) == Cardinality(DOMAIN v)

\* entry (i, col) of the matrix (A, -A) that acts on a doubled-width vector
DoubledEntry(A, i, col) ==
  IF col < Count(A[i]) THEN A[i][col] ELSE 0 - A[i][col - Count(A[i])]
\* || A x - b ||^2 and || A^T lambda + mu - c ||^2
PrimalGapSq(inp) ==
  SumRange([i \in DOMAIN inp.b |->
              LET r == SumRange([col \in DOMAIN inp.x |-> DoubledEntry(inp.A, i, col) * inp.x[col]],
                                0, Count(inp.x) - 1) - inp.b[i]
              IN r * r],
           0, Count(inp.b) - 1)
DualGapSq(inp) ==
  SumRange([col \in DOMAIN inp.c |->
              LET r == SumRange([i \in DOMAIN inp.A |-> DoubledEntry(inp.A, i, col) * inp.lambda[i]],
                                0, Count(inp.A) - 1) + inp.mu[col] - inp.c[col]
              IN r * r],
           0, Count(inp.c) - 1)

FeasibilityCall == lp.pc = "returned" /\ lp.method = "is_feasible" /\ lp.err = "none"

\* C15: is_feasible(A, b, c, x, lambda, mu) returns true exactly when
\* ||A x - b|| < epsilon, x >= 0 in every component,
\* ||A^T lambda + mu - c|| < epsilon and mu >= 0 in every component
\* (a norm is below epsilon when epsilon > 0 and its square is below epsilon^2).
C15_Feasible ==
  FeasibilityCall =>
     /\ lp.out \in {"True", "False"}
     /\ lp.out = "True" <=>
          /\ lp.epsilon > 0
          /\ PrimalGapSq(lp.in) < lp.epsilon * lp.epsilon
          /\ \A i \in DOMAIN lp.in.x : lp.in.x[i] >= 0
          /\ DualGapSq(lp.in) < lp.epsilon * lp.epsilon
          /\ \A i \in DOMAIN lp.in.mu : lp.in.mu[i] >= 0
C15_Witness ==
  /\ FeasibilityCall /\ lp.out = "True"
  /\ lp.M = 2 /\ lp.N = 2
  /\ PrimalGapSq(lp.in) > 0 /\ DualGapSq(lp.in) > 0
  /\ \E i \in DOMAIN lp.in.lambda : lp.in.lambda[i] # 0

\* the hand-made problem: M = 2, N = 2, A the identity, b = [1, 1],
\* lambda = [0, 0], mu = [0, 0, 1, 1], with the cost vector cc
ExampleCall(cc) ==
  /\ lp.pc = "returned" /\ lp.method = "is_feasible" /\ lp.in.kinds = AllOk
  /\ lp.M = 2 /\ lp.N = 2 /\ lp.epsilon > 0
  /\ lp.in.A = Vec(<<Vec(<<1, 0>>), Vec(<<0, 1>>)>>)
  /\ lp.in.b = Vec(<<1, 1>>)
  /\ lp.in.c = cc
  /\ lp.in.lambda = Vec(<<0, 0>>)
  /\ lp.in.mu = Vec(<<0, 0, 1, 1>>)
Perturbed == PrimalGapSq(lp.in) > lp.epsilon * lp.epsilon

\* C16 as stated: for the hand-made problem with c = [1, 1], is_feasible
\* returns true at x = [1, 1, 0, 0] and false once x is perturbed so that
\* A x = b is violated by more than epsilon.
C16_ExampleAsStated ==
  /\ (ExampleCall(Vec(<<1, 1>>)) /\ lp.in.x = Vec(<<1, 1, 0, 0>>)) => lp.out = "True"
  /\ (ExampleCall(Vec(<<1, 1>>)) /\ Count(lp.in.x) = 4 /\ Perturbed) => lp.out = "False"

\* C16 (amended): for the hand-made problem with a cost vector of 2N
\* entries, c = [0, 0, 1, 1], is_feasible returns true at x = [1, 1, 0, 0]
\* and false once x is perturbed so that A x = b is violated by more than
\* epsilon; with c = [1, 1] the call returns nothing and ends with an error.
C16_Example ==
  /\ (ExampleCall(Vec(<<0, 0, 1, 1>>)) /\ lp.in.x = Vec(<<1, 1, 0, 0>>)) => lp.out = "True"
  /\ (ExampleCall(Vec(<<0, 0, 1, 1>>)) /\ Count(lp.in.x) = 4 /\ Perturbed) => lp.out = "False"
  /\ ExampleCall(Vec(<<1, 1>>)) => (lp.out = "none" /\ lp.err = "RuntimeError:is_feasible")
C16_Witness ==
  /\ ExampleCall(Vec(<<0, 0, 1, 1>>)) /\ lp.in.x = Vec(<<1, 1, 0, 0>>)
  /\ lp.out = "True"

PredicateMethods == {"is_feasible", "is_in_v", "is_in_vinf", "is_in_v_s"}

\* C17: is_feasible, is_in_v and is_in_v_s never change what can be observed
\* of the solver they are called on: M, N, epsilon, the parameters of the
\* strategy, lambda and mu are after the call what they were before it.
C17_Frame ==
  (lp.pc = "returned" /\ lp.method \in PredicateMethods) => Observable(lp) = lp.before
C17_Witness ==
  /\ lp.pc = "returned" /\ lp.method = "is_feasible" /\ lp.out = "True"
  /\ \E i \in DOMAIN lp.mu : lp.mu[i] # 0
  /\ \E i \in DOMAIN lp.mu : lp.mu[i] # lp.in.mu[i]

NeighbourhoodCall ==
  lp.pc = "returned" /\ lp.method \in {"is_in_v", "is_in_vinf"} /\ lp.err = "none"
Products(x, m) == [i \in DOMAIN x |-> x[i] * m[i]]
Gap(x, m) == SumRange(Products(x, m), 0, Count(x) - 1)
\* || x o mu - tau 1 ||_2 <= theta tau with tau = x^T mu / len(x), theta
\* being t / ThetaDen: both sides are multiplied by len(x) * ThetaDen and squared
InBall(x, m, t) ==
  /\ t * Gap(x, m) >= 0
  /\ ThetaDen * ThetaDen *
       SumRange([i \in DOMAIN x |->
                   (Count(x) * Products(x, m)[i] - Gap(x, m)) * (Count(x) * Products(x, m)[i] - Gap(x, m))],
                0, Count(x) - 1)
       <= t * t * Gap(x, m) * Gap(x, m)
\* x o mu >= gamma tau in every component, gamma being g / ThetaDen
AboveFloor(x, m, g) ==
  \A i \in DOMAIN x : ThetaDen * Count(x) * Products(x, m)[i] >= g * Gap(x, m)

\* C18: on the short-step and predictor-corrector solvers (no object of the
\* base type exists), is_in_v(x, mu, theta) returns true exactly when
\* || x o mu - tau 1 ||_2 <= theta tau, with tau = x^T mu / len(x).
C18_V2 ==
  (NeighbourhoodCall /\ lp.strategy \in {"shortstep", "predictor_corrector"}) =>
     /\ lp.method = "is_in_v"
     /\ lp.out \in {"True", "False"}
     /\ lp.out = "True" <=> InBall(lp.in.x, lp.in.mu, lp.in.theta)
C18_Witness ==
  /\ NeighbourhoodCall /\ lp.strategy = "predictor_corrector"
  /\ lp.out = "True" /\ lp.in.theta < ThetaDen
  /\ \E i \in DOMAIN lp.in.x : Products(lp.in.x, lp.in.mu)[i] # Products(lp.in.x, lp.in.mu)[0]

\* C19: is_in_v_s(A, b, c, x, lambda, mu, theta) returns the conjunction of
\* what is_feasible(A, b, c, x, lambda, mu) and is_in_v(x, mu, theta) return
\* on the same solver.
C19_Conjunction ==
  (lp.pc = "returned" /\ lp.method = "is_in_v_s" /\ lp.err = "none") =>
     /\ IsFeasibleCall(lp, lp.in).err = "none" /\ IsInVCall(lp, lp.in).err = "none"
     /\ lp.out \in {"True", "False"}
     /\ lp.out = "True" <=>
          (IsFeasibleCall(lp, lp.in).out = "True" /\ IsInVCall(lp, lp.in).out = "True")
C19_Witness ==
  /\ lp.pc = "returned" /\ lp.method = "is_in_v_s" /\ lp.out = "True"
  /\ lp.strategy = "longstep" /\ lp.N = 2
  /\ \E i \in DOMAIN lp.in.x : Products(lp.in.x, lp.in.mu)[i] # Products(lp.in.x, lp.in.mu)[0]

\* C20: on the long-step solver, is_in_v(x, mu, gamma) is the V-infinity
\* test: it returns true exactly when every component of x o mu is at least
\* gamma tau, with tau = x^T mu / len(x); it is not the 2-norm test.
C20_VInf ==
  (NeighbourhoodCall /\ lp.strategy = "longstep") =>
     /\ lp.method = "is_in_vinf"
     /\ lp.out \in {"True", "False"}
     /\ lp.out = "True" <=> AboveFloor(lp.in.x, lp.in.mu, lp.in.theta)
C20_Witness ==
  /\ NeighbourhoodCall /\ lp.strategy = "longstep"
  /\ lp.out = "False"
  /\ InBall(lp.in.x, lp.in.mu, lp.in.theta)

\* ------------------------------------------------------------------ claims (PAV, the passes)
\* C23: whenever the core routine called by an entry point raises an error,
\* the entry point reports the failure to its caller and returns no result
\* value: the error is set and the value returned is NULL.
C23_Surfaced ==
  (pc = "returned" /\ py.error # "none") => py.result = "NULL"

WidthCall == pc = "done" /\ fn \in {"pavxWidth", "pavxWidthHeight"} /\ Extent(y) >= 1
\* the number of constant runs of the fit
Blocks == Cardinality({i \in DOMAIN y : i = 0 \/ ghat[i - 1] # ghat[i]})
StrictlyIncreasing(a) == \A i \in DOMAIN a : (i + 1) \in DOMAIN a => a[i] < a[i + 1]

InPasses == pc \in {"pavx_1", "for", "while", "width", "pavx_2"}
WellFormedCall == Extent(y) >= 1 /\ Extent(ghat) = Extent(y)
\* a natural number that every step of the two passes makes smaller
Measure ==
  IF pc = "pavx_1" THEN 4 * Extent(y) + 3
  ELSE IF pc = "for" THEN Extent(y) + 3 + 3 * (Extent(y) - j) + ci + 2
  ELSE IF pc = "while" THEN Extent(y) + 3 + 3 * (Extent(y) - j) + ci
  ELSE IF pc = "width" THEN Extent(y) + 2
  ELSE IF pc = "pavx_2" THEN n + 1
  ELSE 0

\* C25: for every input of length n >= 1 both passes terminate (every step of
\* a pass decreases a natural number) and the first pass pools two blocks at
\* most n - 1 times in all.
C25_Bounded ==
  /\ [](WellFormedCall => merges <= Extent(y) - 1)
  /\ [][(InPasses /\ WellFormedCall) => (0 <= Measure' /\ Measure' < Measure)]_vars
C25_Witness ==
  /\ pc = "done" /\ WellFormedCall /\ ~shared
  /\ Extent(y) = 4 /\ merges = 3

\* C26: after each iteration of the outer loop of the first pass, the blocks
\* 0..ci cut the indices 0..j-1 already read into contiguous runs (block k
\* starts at index(k), has len(k) >= 1 elements, and the next block, or the
\* next element to read, starts at index(k) + len(k)), and ghat(k) is the
\* arithmetic mean of y over block k.
C26_Blocks ==
  (pc = "for" /\ Extent(y) >= 1) =>
     /\ index[0] = 0
     /\ \A k \in 0..ci :
          /\ len[k] >= 1
          /\ index[k] + len[k] = (IF k < ci THEN index[k + 1] ELSE j)
          /\ ghat[k] * len[k] = SumRange(y, index[k], index[k] + len[k] - 1)
C26_Witness ==
  /\ pc = "for" /\ ~shared /\ j < Extent(y)
  /\ ci >= 1
  /\ \E k \in 0..ci : len[k] >= 2 /\ ghat[k] % Scale # 0

\* C27: for every input of length n >= 1 (with an output of the same length),
\* every read and write of y, ghat, index and len in both passes stays within
\* 0..n-1: ci never exceeds j in the first pass, the ranges copied by pavxWidth
\* are inside len, and the second pass reads block ci only while ci is a
\* valid index, never after ci has been decremented below 0.
C27_InRange ==
  (WellFormedCall /\ pc \notin {"idle", "error", "aborted"}) =>
     /\ ~oob /\ pc # "ub"
     /\ pc \in {"for", "while"} => (ci <= j /\ ci < Extent(y))
     /\ pc = "width" => ci \in DOMAIN len
     /\ (pc = "pavx_2" /\ n >= 1) =>
          (ci \in DOMAIN index /\ index[ci] <= n - 1 /\ (n - 1) \in DOMAIN ghat)
C27_Witness ==
  /\ pc = "done" /\ WellFormedCall /\ ~oob
  /\ Extent(y) >= 3 /\ merges >= 1
  /\ ci = SizeMax

\* g is the isotonic fit of yy
FitOf(yy, g) ==
  /\ NonDecreasing(g)
  /\ \A c \in Candidates(yy) : Cost(yy, Fine(g)) <= Cost(yy, c)
FitCall == pc = "done" /\ Extent(held) >= 1 /\ Extent(ghat) = Extent(held)

\* C30 as stated: pavx computes the fit from the original input values,
\* also when the same array is passed as input and as output.
C30_AliasedAsStated == FitCall => FitOf(held, Output)

\* C30 (amended): with an output array distinct from the input, the result is
\* the isotonic fit of the input whatever the output array held before, and
\* the input is left as it was; when the same array is passed as input and
\* output, it is cleared before it is read and the result is all zeros.
C30_Frame ==
  FitCall =>
     /\ ~shared => (FitOf(held, Output) /\ y = held)
     /\ shared => Output = Arr(Extent(held), 0)
C30_Witness ==
  /\ FitCall /\ shared /\ fn = "pavx"
  /\ Extent(held) >= 3
  /\ \A i \in DOMAIN held : held[i] # 0
  /\ ~FitOf(held, Output)

\* ------------------------------------------------------------------ claims (constructors and functions)
\* C22: constructing a solver of the base type LPInteriorPoint fails with an
\* error for any arguments and leaves no object; a solver exists only after
\* the constructor of one of the three strategy types has succeeded.
C22_BaseFails ==
  /\ invoked.fn = "LPInteriorPoint" =>
       (invoked.error = "NotImplementedError" /\ invoked.result = "none" /\ lp.pc = "none")
  /\ lp.pc # "none" =>
       (invoked.fn = TypeName(lp.strategy) /\ invoked.error = "none" /\ invoked.result = "object")
C22_Witness ==
  /\ invoked.fn = "LPInteriorPoint"
  /\ invoked.in.npos = 3 /\ invoked.in.nkw = 2 /\ invoked.in.wellformed
  /\ invoked.error = "NotImplementedError"

Total == invoked.in.npos + invoked.in.nkw
FullLists(f) ==
  IF f = "LPInteriorPointShortstep" THEN {4}
  ELSE IF f \in StrategyTypes THEN {5}
  ELSE {2, 4}

\* C28: a strategy constructor and each histogram-measure dispatcher choose
\* the overload by the number of positional plus keyword arguments: the full
\* list of well-formed arguments (4 for short-step, 5 for the two others, 2 or
\* 4 for a histogram measure) is accepted however it is split between
\* positional and keyword arguments, and any other total is rejected with the
\* arguments-mismatch error.
C28_ByTotal ==
  (invoked.fn \in StrategyTypes \cup Measures) =>
     /\ (Total \in FullLists(invoked.fn) /\ invoked.in.wellformed
           /\ (invoked.fn \in StrategyTypes => DimensionsValid(invoked.in.M, invoked.in.N)))
          => invoked.error = "none"
     /\ Total \notin FullLists(invoked.fn) => invoked.error = "RuntimeError:nargs"

\* C29: for every p that normsinv accepts (0 <= p <= 1) exactly one of the
\* three rational approximations (lower, central, upper) defines x before the
\* refinement step, so the result never comes from the initial value x = 0.
C29_RegionApplied ==
  (invoked.fn = "normsinv" /\ 0 <= invoked.in.p /\ invoked.in.p <= PDen) =>
     (invoked.error = "none" /\ invoked.path \in {"lower", "central", "upper"})

====
